---- MODULE Spec2Model ----
(***************************************************************************)
(* Model of src/app.py: the discovery pass with its immediate stats fetch  *)
(* (discover_and_initial_stats), the hand-over to st.session_state and the *)
(* start of the polling thread (main app logic), the polling thread        *)
(* (poll_stats_background) and the reads of the rendering pass.            *)
(*                                                                         *)
(* Instants are seconds since the epoch (UTC).  The YouTube client is the  *)
(* environment: every call either raises HttpError or answers, and what it *)
(* answers is drawn from small sets.                                       *)
(***************************************************************************)
EXTENDS Integers, Sequences, FiniteSets, TLC

\* ------------------------------------------------------------------ bounds
\* Number of entries of CHANNEL_IDS (nine in the source).
NumChannels == 2
\* Pages a playlist listing has at most.
MaxPages == 2
\* Entries a playlist page has at most.
MaxPageLen == 1
\* Video ids the collaborator knows: 1..NumVids.
NumVids == 2
\* Size of one statistics batch (50 in the source, lines 164 and 221).
BatchSize == 1
\* Entries the listings hold at most that pass both tests of discovery.
MaxShorts == 2

\* ------------------------------------------------------- program constants
IstOffsetSecs == 19800
DaySecs == 86400
HourSecs == 3600
ShortLimit == 180
EpsMicroHours == 1000000

Channels == 1..NumChannels
Vids == 1..NumVids
\* viewCount values a statistics answer carries.
ViewCounts == {950, 1000}

\* Wall-clock readings during the discovery pass: 18:29:59 and 18:30:00 UTC
\* of one day, the second being local midnight in IST.
Instants == {152999, 153000}

\* publishedAt values of listing entries; BadTime stands for a string that
\* datetime.fromisoformat rejects.
BadTime == -1
PubTimes == {BadTime, 66599, 66600, 153000}

\* Duration tokens of videos().list answers and what isodate.parse_duration
\* makes of them; "junk" is a token parse_duration raises on.
DurTokens == {"PT45S", "PT3M", "PT3M1S", "junk"}

VARIABLES
    now,                \* the wall clock
    pc,                 \* position of the script thread
    idx,                \* loop variable of line 94
    pages,              \* pages of the current playlist fetched so far
    pageLeft,           \* entries of pl_resp["items"] not yet iterated
    hasNext,            \* list_next(pl_req, pl_resp) is not None
    channel_shorts,     \* line 115
    today_shorts,       \* line 92
    shorts_data,        \* line 85, a dict: id -> list of rows
    video_to_channel,   \* line 86
    video_to_published, \* line 87
    logs,               \* line 88
    now_ts,             \* line 163
    bi,                 \* loop variable i of line 164
    ret,                \* the value discover_and_initial_stats returned
    ss,                 \* st.session_state
    vid_selected,       \* line 299
    df,                 \* line 307: the DataFrame's rows
    vph_vals,           \* line 317
    bg_pc,              \* position of the polling thread
    poll_now_ts,        \* line 218
    poll_vids,          \* line 220
    poll_i,             \* loop variable i of line 221
    stats_resp,         \* line 224: the answer items not yet iterated
    poll_vid,           \* line 234
    data_lock,          \* the polling thread holds data_lock
    wake_at,            \* the instant the sleep of line 248 ends
    failed,             \* history: a collaborator call has raised HttpError
    fetches,            \* history: statistics fetches issued so far
    accepted,           \* history: per channel, the ids accepted at line 145
    answered,           \* history: ids the immediate round got statistics for
    last_item,          \* history: the listing entry line 123 took last
    last_answer,        \* history: the latest statistics answer as it arrived
    poll_base           \* history: the store when the polling thread's
                        \* latest answer arrived

\* The locals of discover_and_initial_stats.
discVars == <<idx, pages, pageLeft, hasNext, channel_shorts, today_shorts,
              shorts_data, video_to_channel, video_to_published, logs, now_ts, bi>>
\* The locals of the rendering pass.
uiVars == <<vid_selected, df, vph_vals>>
\* The locals of poll_stats_background, and the lock.
pollVars == <<poll_now_ts, poll_vids, poll_i, stats_resp, poll_vid, data_lock,
              wake_at>>

\* The history variables: no step reads them.
histVars == <<failed, fetches, accepted, answered>>

\* More history variables: what the collaborator answered last.
obsVars == <<last_item, last_answer, poll_base>>

vars == <<now, pc, discVars, ret, ss, uiVars, bg_pc, pollVars, histVars, obsVars>>

\* ------------------------------------------------------------ pure helpers
\* An empty Python dict / list.
EmptyDict == <<>>

\* The elements of a list.
Range(s) == {s[i] : i \in 1..Len(s)}

\* d[k] = x of a Python dict.
DictSet(d, k, x) == [v \in DOMAIN d \cup {k} |-> IF v = k THEN x ELSE d[v]]

\* The keys of the dict built by inserting the elements of s in order:
\* Python keeps a dict's keys in first-insertion order.
RECURSIVE KeyOrder(_)
KeyOrder(s) ==
    IF s = <<>> THEN <<>>
    ELSE LET front == KeyOrder(SubSeq(s, 1, Len(s) - 1))
             last == s[Len(s)]
         IN IF last \in Range(front) THEN front ELSE Append(front, last)

Min(a, b) == IF a <= b THEN a ELSE b

\* isodate.parse_duration(...).total_seconds() on the tokens it accepts.
ParsedSeconds == [t \in {"PT45S", "PT3M", "PT3M1S"} |->
                    CASE t = "PT45S" -> 45 [] t = "PT3M" -> 180 [] t = "PT3M1S" -> 181]

\* Lines 37-42 with the except clause giving a duration over the limit.
iso8601_to_seconds_Strict(duration_str) ==
    IF duration_str \in DOMAIN ParsedSeconds
    THEN ParsedSeconds[duration_str] ELSE ShortLimit + 1

\* Lines 37-42: the bare except turns a token that does not parse into 0.
iso8601_to_seconds(duration_str) ==
    IF duration_str \in DOMAIN ParsedSeconds THEN ParsedSeconds[duration_str] ELSE 0

\* Lines 44-60: today's midnight in IST as a UTC instant, for the clock t.
get_midnight_ist_utc(t) ==
    ((t + IstOffsetSecs) \div DaySecs) * DaySecs - IstOffsetSecs

\* Lines 62-72 with the comparison of line 72 closed at the upper end.
is_within_today_Closed(published_at_str, t) ==
    IF published_at_str = BadTime THEN FALSE
    ELSE LET midnight_utc == get_midnight_ist_utc(t)
             next_midnight_utc == midnight_utc + DaySecs
         IN midnight_utc <= published_at_str /\ published_at_str <= next_midnight_utc

\* Lines 62-72: the window is recomputed from the clock at every call.
is_within_today(published_at_str, t) ==
    IF published_at_str = BadTime THEN FALSE
    ELSE LET midnight_utc == get_midnight_ist_utc(t)
             next_midnight_utc == midnight_utc + DaySecs
         IN midnight_utc <= published_at_str /\ published_at_str < next_midnight_utc

\* The statistics of one answer item after the int(stats.get(..., 0)) of
\* lines 180-182.
StatsVals == [viewCount : ViewCounts, likeCount : {0}, commentCount : {0}]

\* Lines 178-183 / 236-241: the row appended for one answer item.
Row(ts, stats) == [timestamp |-> ts, viewCount |-> stats.viewCount,
                   likeCount |-> stats.likeCount, commentCount |-> stats.commentCount]

\* Lines 165 / 222: vids[i:i+50].
Batch(vids, i) == SubSeq(vids, i + 1, Min(i + BatchSize, Len(vids)))

\* What a statistics call for batch may answer: statistics for some of the
\* requested ids (a deleted or private video is left out) and possibly for
\* ids the engine does not track.
Answers(batch, tracked) ==
    UNION {[S -> StatsVals] : S \in SUBSET (Range(batch) \cup (Vids \ tracked))}

\* Lines 233-243 with the new row put in front of the list.
AppendRow_Front(d, vid, row) == [d EXCEPT ![vid] = <<row>> \o @]

\* Lines 233-243 with the new row appended to every list of the dict.
AppendRow_All(d, vid, row) == [v \in DOMAIN d |-> Append(d[v], row)]

\* Lines 175-184 / 233-243 for one answer item on a dict of row lists.
AppendRow(d, vid, row) == [d EXCEPT ![vid] = Append(@, row)]

\* Lines 175-184 with the append of line 184 left out.
AppendAll_Dropped(d, ts, answer) == d

\* Lines 175-184 for a whole answer whose ids are all keys of d.
AppendAll(d, ts, answer) ==
    [v \in DOMAIN d |-> IF v \in DOMAIN answer
                         THEN Append(d[v], Row(ts, answer[v])) ELSE d[v]]

\* Log lines, by kind: the f-strings of lines 102-173.
LogLine(kind, a, b) == [kind |-> kind, a |-> a, b |-> b]

NoneVal == "None"

\* The five values discover_and_initial_stats returns; keys is the key order
\* of the dict shorts_data.
RetVal(sd, keys, vc, vp, lg, ns) ==
    [shorts_data |-> sd, shorts_keys |-> keys, video_to_channel |-> vc,
     video_to_published |-> vp, logs |-> lg, no_shorts |-> ns]

\* The returns of lines 103, 121, 137, 157, 173 with the two metadata dicts
\* returned as they are.
EmptyReturn_KeepMeta(lg) ==
    RetVal(EmptyDict, <<>>, video_to_channel, video_to_published, lg, TRUE)

\* The error returns of lines 103, 121, 137, 173 and the no-items return of
\* line 157: three empty dicts, the logs, True.
EmptyReturn(lg) == RetVal(EmptyDict, <<>>, EmptyDict, EmptyDict, lg, TRUE)

\* The clock hour an instant lies in.
HourSlot(t) == t \div HourSecs

\* Line 247 with the result taken modulo the hour.
secs_until_next_Mod(t) ==
    (HourSecs - (((t \div 60) % 60) * 60 + (t % 60))) % HourSecs

\* Line 247: the seconds to the next top of the hour at the clock t.
Minute(t) == (t \div 60) % 60
Second(t) == t % 60
secs_until_next(t) == HourSecs - (Minute(t) * 60 + Second(t))

\* No listing entry has been looked at since the page or channel at hand was
\* started; the entry is also forgotten once the outcome of the pass is
\* stored.
NoItem == [seen |-> FALSE, published_at |-> BadTime, duration |-> "none"]

\* The listing entry of line 123 with the publishedAt of line 125 and the
\* duration token of line 139; "no_lookup" when line 127 skipped the entry
\* and "lookup_failed" when line 131 raised.
Item(published_at, duration) ==
    [seen |-> TRUE, published_at |-> published_at, duration |-> duration]

\* ----------------------------------------------------------------- Init
Init ==
    /\ now \in Instants
    /\ pc = "ch_fetch"
    /\ idx = 1
    /\ pages = 0
    /\ pageLeft = 0
    /\ hasNext = FALSE
    /\ channel_shorts = <<>>
    /\ today_shorts = <<>>
    /\ shorts_data = EmptyDict
    /\ video_to_channel = EmptyDict
    /\ video_to_published = EmptyDict
    /\ logs = <<>>
    /\ now_ts = 0
    /\ bi = 0
    /\ ret = EmptyReturn(<<>>)
    /\ ss = [initialized |-> FALSE, shorts_data |-> EmptyDict, shorts_keys |-> <<>>,
             video_to_channel |-> EmptyDict, video_to_published |-> EmptyDict,
             discovery_logs |-> <<>>, error_message |-> NoneVal,
             no_shorts_flag |-> FALSE]
    /\ vid_selected = 0
    /\ df = <<>>
    /\ vph_vals = <<>>
    /\ bg_pc = "not_started"
    /\ poll_now_ts = 0
    /\ poll_vids = <<>>
    /\ poll_i = 0
    /\ stats_resp = EmptyDict
    /\ poll_vid = 0
    /\ data_lock = FALSE
    /\ wake_at = 0
    /\ failed = FALSE
    /\ fetches = 0
    /\ accepted = [c \in Channels |-> <<>>]
    /\ answered = {}
    /\ last_item = NoItem
    /\ last_answer = EmptyDict
    /\ poll_base = EmptyDict

\* The wall clock advances while the discovery pass, which reads it at lines
\* 70 and 163, is running.
Tick ==
    /\ pc \in {"ch_fetch", "pl_fetch", "items"}
    /\ \E t \in Instants : t > now /\ now' = t
    /\ UNCHANGED <<pc, discVars, ret, ss, uiVars, bg_pc, pollVars, failed,
                   fetches, accepted, answered>>
    /\ UNCHANGED obsVars

\* ------------------------------------------- discover_and_initial_stats
\* The variables no step of discover_and_initial_stats touches.
DiscFrame == UNCHANGED <<now, ss, uiVars, bg_pc, pollVars>>

\* A return statement: the function's value is r.  The locals keep the
\* values they had; nothing reads them afterwards.
Return(r) ==
    /\ ret' = r
    /\ pc' = "returned"

\* Lines 96-107, the call answers.
ChannelFetchOk ==
    /\ pc = "ch_fetch"
    /\ logs' = Append(logs, LogLine("checking", idx, NumChannels))
    /\ channel_shorts' = <<>>
    /\ pages' = 0
    /\ pc' = "pl_fetch"
    /\ UNCHANGED <<idx, pageLeft, hasNext, today_shorts, shorts_data,
                   video_to_channel, video_to_published, now_ts, bi, ret,
                   failed, fetches, accepted, answered>>
    /\ DiscFrame
    /\ UNCHANGED obsVars

\* Lines 101-103, the call raises HttpError.
ChannelFetchFail ==
    /\ pc = "ch_fetch"
    /\ logs' = Append(logs, LogLine("error_channel", idx, 0))
    /\ Return(EmptyReturn(logs'))
    /\ failed' = TRUE
    /\ UNCHANGED <<idx, pages, pageLeft, hasNext, channel_shorts, today_shorts,
                   shorts_data, video_to_channel, video_to_published, now_ts, bi,
                   fetches, accepted, answered>>
    /\ DiscFrame
    /\ UNCHANGED obsVars

\* Lines 116-118: a page of n entries arrives; more says whether list_next
\* will give a further request.
PlaylistPageOk(n, more) ==
    /\ pc = "pl_fetch"
    /\ more => pages + 1 < MaxPages
    /\ pages' = pages + 1
    /\ pageLeft' = n
    /\ hasNext' = more
    /\ pc' = "items"
    /\ UNCHANGED <<idx, channel_shorts, today_shorts, shorts_data,
                   video_to_channel, video_to_published, logs, now_ts, bi, ret,
                   failed, fetches, accepted, answered>>
    /\ DiscFrame
    /\ UNCHANGED obsVars

\* Lines 119-121.
PlaylistPageFail ==
    /\ pc = "pl_fetch"
    /\ logs' = Append(logs, LogLine("error_playlist", idx, 0))
    /\ Return(EmptyReturn(logs'))
    /\ failed' = TRUE
    /\ UNCHANGED <<idx, pages, pageLeft, hasNext, channel_shorts, today_shorts,
                   shorts_data, video_to_channel, video_to_published, now_ts, bi,
                   fetches, accepted, answered>>
    /\ DiscFrame
    /\ UNCHANGED obsVars

\* Lines 123-127: the next entry of the page is outside today's window.
ItemOutsideWindow(published_at) ==
    /\ pc = "items"
    /\ pageLeft > 0
    /\ ~is_within_today(published_at, now)
    /\ pageLeft' = pageLeft - 1
    /\ UNCHANGED <<pc, idx, pages, hasNext, channel_shorts, today_shorts,
                   shorts_data, video_to_channel, video_to_published, logs,
                   now_ts, bi, ret, failed, fetches, accepted, answered>>
    /\ DiscFrame
    /\ last_item' = Item(published_at, "no_lookup")
    /\ UNCHANGED <<last_answer, poll_base>>

\* Lines 130-137: the entry is in the window and the duration lookup raises.
ItemLookupFail(vid_id, published_at) ==
    /\ pc = "items"
    /\ pageLeft > 0
    /\ is_within_today(published_at, now)
    /\ logs' = Append(logs, LogLine("error_video", vid_id, 0))
    /\ Return(EmptyReturn(logs'))
    /\ failed' = TRUE
    /\ UNCHANGED <<idx, pages, pageLeft, hasNext, channel_shorts, today_shorts,
                   shorts_data, video_to_channel, video_to_published, now_ts, bi,
                   fetches, accepted, answered>>
    /\ DiscFrame
    /\ last_item' = Item(published_at, "lookup_failed")
    /\ UNCHANGED <<last_answer, poll_base>>

\* Line 140: the test that makes a video a Short.
IsShort(duration_secs) == duration_secs <= ShortLimit

\* Lines 130-145: the entry is in the window and the duration lookup answers
\* with the token duration; the answer's publishedAt is the listing's.
ItemLookupOk(vid_id, published_at, duration) ==
    /\ pc = "items"
    /\ pageLeft > 0
    /\ is_within_today(published_at, now)
    /\ IsShort(iso8601_to_seconds(duration))
         => Len(today_shorts) + Len(channel_shorts) < MaxShorts
    /\ pageLeft' = pageLeft - 1
    /\ IF IsShort(iso8601_to_seconds(duration))
       THEN /\ video_to_channel' = DictSet(video_to_channel, vid_id, idx)
            /\ video_to_published' = DictSet(video_to_published, vid_id, published_at)
            /\ channel_shorts' = Append(channel_shorts, vid_id)
            /\ accepted' = [accepted EXCEPT ![idx] = Append(@, vid_id)]
       ELSE UNCHANGED <<video_to_channel, video_to_published, channel_shorts,
                        accepted>>
    /\ UNCHANGED <<pc, idx, pages, hasNext, today_shorts, shorts_data, logs,
                   now_ts, bi, ret, failed, fetches, answered>>
    /\ DiscFrame
    /\ last_item' = Item(published_at, duration)
    /\ UNCHANGED <<last_answer, poll_base>>

\* Line 147 with a further page to fetch.
NextPage ==
    /\ pc = "items"
    /\ pageLeft = 0
    /\ hasNext
    /\ pc' = "pl_fetch"
    /\ UNCHANGED <<discVars, ret, failed, fetches, accepted, answered>>
    /\ DiscFrame
    /\ last_item' = NoItem
    /\ UNCHANGED <<last_answer, poll_base>>

\* Lines 149-153 with the else branch logging like the then branch.
ChannelSummary_AlwaysFound == LogLine("found", idx, Len(channel_shorts))

\* The log line of lines 149-153 for the channel just finished.
ChannelSummary ==
    IF channel_shorts # <<>>
    THEN LogLine("found", idx, Len(channel_shorts))
    ELSE LogLine("none", idx, 0)

\* Lines 147-153 after the last page of a channel that is not the last one.
ChannelDone ==
    /\ pc = "items"
    /\ pageLeft = 0
    /\ ~hasNext
    /\ idx < NumChannels
    /\ logs' = Append(logs, ChannelSummary)
    /\ today_shorts' = today_shorts \o channel_shorts
    /\ idx' = idx + 1
    /\ pc' = "ch_fetch"
    /\ UNCHANGED <<pages, pageLeft, hasNext, channel_shorts, shorts_data,
                   video_to_channel, video_to_published, now_ts, bi, ret, failed,
                   fetches, accepted, answered>>
    /\ DiscFrame
    /\ last_item' = NoItem
    /\ UNCHANGED <<last_answer, poll_base>>

\* Line 155 with the test never true.
NoShortsToday_Never(shorts) == FALSE

\* Line 155: nothing was accepted in any channel.
NoShortsToday(shorts) == shorts = <<>>

\* Lines 147-157 after the last page of the last channel, nothing accepted.
LastChannelDoneEmpty ==
    /\ pc = "items"
    /\ pageLeft = 0
    /\ ~hasNext
    /\ idx = NumChannels
    /\ today_shorts' = today_shorts \o channel_shorts
    /\ NoShortsToday(today_shorts')
    /\ logs' = Append(Append(logs, ChannelSummary), LogLine("no_shorts_today", 0, 0))
    /\ Return(EmptyReturn(logs'))
    /\ UNCHANGED <<idx, pages, pageLeft, hasNext, channel_shorts, shorts_data,
                   video_to_channel, video_to_published, now_ts, bi, failed,
                   fetches, accepted, answered>>
    /\ DiscFrame
    /\ UNCHANGED obsVars

\* Lines 147-164 after the last page of the last channel: the dict of empty
\* row lists is built and the capture time of the first round is read; the
\* loop of line 164 has a batch to fetch when today_shorts is not empty.
LastChannelDone ==
    /\ pc = "items"
    /\ pageLeft = 0
    /\ ~hasNext
    /\ idx = NumChannels
    /\ today_shorts' = today_shorts \o channel_shorts
    /\ ~NoShortsToday(today_shorts')
    /\ logs' = Append(logs, ChannelSummary)
    /\ shorts_data' = [v \in Range(today_shorts') |-> <<>>]
    /\ now_ts' = now
    /\ bi' = 0
    /\ IF today_shorts' # <<>>
       THEN /\ pc' = "stats"
            /\ UNCHANGED ret
       ELSE Return(RetVal(shorts_data', <<>>, video_to_channel,
                          video_to_published, logs', FALSE))
    /\ UNCHANGED <<idx, pages, pageLeft, hasNext, channel_shorts,
                   video_to_channel, video_to_published, failed, fetches,
                   accepted, answered>>
    /\ DiscFrame
    /\ UNCHANGED obsVars

\* Lines 164-186: the statistics call for the batch at bi answers and every
\* id of the answer is a key of shorts_data.
StatsFetchOk(answer) ==
    /\ pc = "stats"
    /\ answer \in Answers(Batch(today_shorts, bi), DOMAIN shorts_data)
    /\ DOMAIN answer \subseteq DOMAIN shorts_data
    /\ fetches' = fetches + 1
    /\ answered' = answered \cup DOMAIN answer
    /\ shorts_data' = AppendAll(shorts_data, now_ts, answer)
    /\ bi' = bi + BatchSize
    /\ IF bi' < Len(today_shorts)
       THEN UNCHANGED <<pc, ret>>
       ELSE Return(RetVal(shorts_data', KeyOrder(today_shorts), video_to_channel,
                          video_to_published, logs, FALSE))
    /\ UNCHANGED <<idx, pages, pageLeft, hasNext, channel_shorts, today_shorts,
                   video_to_channel, video_to_published, logs, now_ts, failed,
                   accepted>>
    /\ DiscFrame
    /\ last_answer' = answer
    /\ UNCHANGED <<last_item, poll_base>>

\* Line 184 on an answer item whose id is no key of shorts_data: KeyError
\* leaves discover_and_initial_stats and ends the script run at line 253.
StatsFetchKeyError(answer) ==
    /\ pc = "stats"
    /\ answer \in Answers(Batch(today_shorts, bi), DOMAIN shorts_data)
    /\ ~(DOMAIN answer \subseteq DOMAIN shorts_data)
    /\ fetches' = fetches + 1
    /\ pc' = "crashed"
    /\ UNCHANGED <<discVars, ret, failed, accepted, answered>>
    /\ DiscFrame
    /\ UNCHANGED obsVars

\* Lines 171-173.
StatsFetchFail ==
    /\ pc = "stats"
    /\ fetches' = fetches + 1
    /\ logs' = Append(logs, LogLine("error_stats", 0, 0))
    /\ Return(EmptyReturn(logs'))
    /\ failed' = TRUE
    /\ UNCHANGED <<idx, pages, pageLeft, hasNext, channel_shorts, today_shorts,
                   shorts_data, video_to_channel, video_to_published, now_ts, bi,
                   accepted, answered>>
    /\ DiscFrame
    /\ UNCHANGED obsVars

\* ------------------------------------------------------- main app logic
\* Lines 253-266 on the first script run of the session: the returned values
\* go into st.session_state and the polling thread is started.
MainStore ==
    /\ pc = "returned"
    /\ ~ss.initialized
    /\ ss' = [initialized |-> TRUE,
              shorts_data |-> ret.shorts_data,
              shorts_keys |-> ret.shorts_keys,
              video_to_channel |-> ret.video_to_channel,
              video_to_published |-> ret.video_to_published,
              discovery_logs |-> ret.logs,
              error_message |-> NoneVal,
              no_shorts_flag |-> ret.no_shorts]
    /\ bg_pc' = "wait"
    /\ pc' = "ui_gate"
    /\ UNCHANGED <<now, discVars, ret, uiVars, pollVars, failed, fetches, accepted, answered>>
    /\ last_item' = NoItem
    /\ UNCHANGED <<last_answer, poll_base>>

\* Lines 278-289: the three st.stop() gates of the rendering pass.
UiStops ==
    \/ ss.no_shorts_flag
    \/ ss.error_message # NoneVal
    \/ ss.shorts_data = EmptyDict

\* Lines 268-289 when one of the gates stops the rendering pass.
UiStop ==
    /\ pc = "ui_gate"
    /\ UiStops
    /\ pc' = "stopped"
    /\ UNCHANGED <<now, discVars, ret, ss, uiVars, bg_pc, pollVars, failed,
                   fetches, accepted, answered>>
    /\ UNCHANGED obsVars

\* Lines 268-302 when no gate stops it: the user picks v, and rows is now
\* bound to the list object st.session_state.shorts_data[v].
UiSelect(v) ==
    /\ pc = "ui_gate"
    /\ ~UiStops
    /\ v \in DOMAIN ss.shorts_data
    /\ vid_selected' = v
    /\ pc' = "ui_rows"
    /\ UNCHANGED <<now, discVars, ret, ss, df, vph_vals, bg_pc, pollVars, failed,
                   fetches, accepted, answered>>
    /\ UNCHANGED obsVars

\* Line 302: rows is a reference to the list in the store, never a copy.
rows == ss.shorts_data[vid_selected]

\* Line 317 with a decrease of the counter clamped to zero.
ViewDiffs_Clamped(r) ==
    [i \in 1..(Len(r) - 1) |->
        IF r[i + 1].viewCount >= r[i].viewCount
        THEN r[i + 1].viewCount - r[i].viewCount ELSE 0]

\* Line 317: df["viewCount"].diff().iloc[1:].tolist().
ViewDiffs(r) == [i \in 1..(Len(r) - 1) |-> r[i + 1].viewCount - r[i].viewCount]

\* Lines 313-316: first_vph as the fraction num/den (views per hour).  The
\* floor of 1e-6 hours is below one second, so with whole seconds it applies
\* exactly when the first capture is not after the publish instant.
FirstVph(r, published) ==
    LET secs == r[1].timestamp - published
    IN IF secs > HourSecs \div EpsMicroHours
       THEN [num |-> r[1].viewCount * HourSecs, den |-> secs]
       ELSE [num |-> r[1].viewCount * EpsMicroHours, den |-> 1]

\* Line 317.
VphVals(r, published) ==
    [i \in 1..Len(r) |-> IF i = 1 THEN FirstVph(r, published)
                         ELSE [num |-> ViewDiffs(r)[i - 1], den |-> 1]]

\* Lines 303-318: the DataFrame copies the rows the list holds at this
\* moment, and the VPH column is computed from the copy.
UiBuild ==
    /\ pc = "ui_rows"
    /\ IF rows = <<>>
       THEN /\ pc' = "stopped"
            /\ UNCHANGED <<df, vph_vals>>
       ELSE /\ df' = rows
            /\ vph_vals' = VphVals(df', ss.video_to_published[vid_selected])
            /\ pc' = "ui_done"
    /\ UNCHANGED <<now, discVars, ret, ss, vid_selected, bg_pc, pollVars, failed,
                   fetches, accepted, answered>>
    /\ UNCHANGED obsVars

\* A rerun of the script: line 253 is answered from st.cache_data, line 256
\* finds the session initialized, and the rendering pass starts again.
Rerun ==
    /\ pc \in {"stopped", "ui_done"}
    /\ pc' = "ui_gate"
    /\ vid_selected' = 0
    /\ df' = <<>>
    /\ vph_vals' = <<>>
    /\ UNCHANGED <<now, discVars, ret, ss, bg_pc, pollVars, failed, fetches,
                   accepted, answered>>
    /\ UNCHANGED obsVars

\* ------------------------------------------------ poll_stats_background
\* Lines 193-198: error_message is declared global and read, and no line of
\* the module binds that name: the read raises NameError and the thread ends.
BgNameError ==
    /\ bg_pc = "wait"
    /\ bg_pc' = "dead"
    /\ UNCHANGED <<now, pc, discVars, ret, ss, uiVars, pollVars, failed, fetches,
                   accepted, answered>>
    /\ UNCHANGED obsVars

\* The script thread's steps and the clock.
ScriptNext ==
    \/ Tick
    \/ ChannelFetchOk
    \/ ChannelFetchFail
    \/ \E n \in 0..MaxPageLen, more \in BOOLEAN : PlaylistPageOk(n, more)
    \/ PlaylistPageFail
    \/ \E p \in PubTimes : ItemOutsideWindow(p)
    \/ \E v \in Vids, p \in PubTimes : ItemLookupFail(v, p)
    \/ \E v \in Vids, p \in PubTimes, d \in DurTokens : ItemLookupOk(v, p, d)
    \/ NextPage
    \/ ChannelDone
    \/ LastChannelDoneEmpty
    \/ LastChannelDone
    \/ \E a \in Answers(Batch(today_shorts, bi), DOMAIN shorts_data) : StatsFetchOk(a)
    \/ \E a \in Answers(Batch(today_shorts, bi), DOMAIN shorts_data) : StatsFetchKeyError(a)
    \/ StatsFetchFail
    \/ MainStore
    \/ UiStop
    \/ \E v \in Vids : UiSelect(v)
    \/ UiBuild
    \/ Rerun

\* The program as it runs.
Next == ScriptNext \/ BgNameError

Spec == Init /\ [][Next]_vars

\* ---------------------------------------------------------------------
\* The polling loop of poll_stats_background, lines 196-248, as it runs when
\* the two names the function reads and no line of the module binds are
\* bound to what the function is written for: error_message (line 198) to a
\* false value and data_lock (line 242) to a threading.Lock.  SpecPoll starts
\* right after lines 253-266 have stored the outcome of a discovery pass and
\* started the thread.
\* ---------------------------------------------------------------------

\* Wall-clock readings while the polling thread runs: 18:30:00 and 19:00:00
\* UTC, the second being the first top of the hour after the first.
PollInstants == {153000, 154800}

\* The instant the discovery pass of SpecPoll's initial states ran: the
\* earliest of PollInstants.
PollStart == CHOOSE t \in PollInstants : \A u \in PollInstants : t <= u

RECURSIVE Concat(_, _)
\* today_shorts after the channels 1..n: what each channel accepted, in order.
Concat(perChannel, n) ==
    IF n = 0 THEN <<>> ELSE Concat(perChannel, n - 1) \o perChannel[n]

RECURSIVE LogsOf(_, _)
\* The log of lines 107 and 149-153 after the channels 1..n.
LogsOf(perChannel, n) ==
    IF n = 0 THEN <<>>
    ELSE LogsOf(perChannel, n - 1) \o
         << LogLine("checking", n, NumChannels),
            IF perChannel[n] # <<>> THEN LogLine("found", n, Len(perChannel[n]))
            ELSE LogLine("none", n, 0) >>

\* video_to_channel after a pass: the last channel that accepted the id.
LastChannelOf(perChannel, v) ==
    CHOOSE c \in Channels :
        /\ v \in Range(perChannel[c])
        /\ \A c2 \in Channels : v \in Range(perChannel[c2]) => c2 <= c

\* What each channel accepts in the passes SpecPoll starts from.
PollListings == [Channels -> {<<>>} \cup {<<v>> : v \in Vids}]

\* st.session_state after lines 253-266 for a pass in which channel c
\* accepted perChannel[c], every accepted entry was published at 66600, and
\* the immediate round captured, at PollStart, the rows of answer.
StoredAfter(perChannel, answer) ==
    LET today == Concat(perChannel, NumChannels)
        keys == Range(today)
    IN IF today = <<>>
       THEN [initialized |-> TRUE, shorts_data |-> EmptyDict, shorts_keys |-> <<>>,
             video_to_channel |-> EmptyDict, video_to_published |-> EmptyDict,
             discovery_logs |-> Append(LogsOf(perChannel, NumChannels),
                                       LogLine("no_shorts_today", 0, 0)),
             error_message |-> NoneVal, no_shorts_flag |-> TRUE]
       ELSE [initialized |-> TRUE,
             shorts_data |-> AppendAll([v \in keys |-> <<>>], PollStart, answer),
             shorts_keys |-> KeyOrder(today),
             video_to_channel |-> [v \in keys |-> LastChannelOf(perChannel, v)],
             video_to_published |-> [v \in keys |-> 66600],
             discovery_logs |-> LogsOf(perChannel, NumChannels),
             error_message |-> NoneVal, no_shorts_flag |-> FALSE]

\* The ids of the last batch of the loop of line 164 over today.
LastBatchIds(today) ==
    IF today = <<>> THEN {}
    ELSE Range(Batch(today, ((Len(today) - 1) \div BatchSize) * BatchSize))

InitPoll ==
    /\ now = PollStart
    /\ pc = "ui_gate"
    /\ \E perChannel \in PollListings :
         \E answer \in UNION {[S -> StatsVals] :
                               S \in SUBSET Range(Concat(perChannel, NumChannels))} :
            /\ ss = StoredAfter(perChannel, answer)
            /\ today_shorts = Concat(perChannel, NumChannels)
            /\ channel_shorts = perChannel[NumChannels]
            /\ accepted = perChannel
            /\ answered = DOMAIN answer
            /\ fetches = (Len(today_shorts) + BatchSize - 1) \div BatchSize
            /\ bi = fetches * BatchSize
            /\ now_ts = IF today_shorts = <<>> THEN 0 ELSE PollStart
            /\ shorts_data = ss.shorts_data
            /\ video_to_channel = ss.video_to_channel
            /\ video_to_published = ss.video_to_published
            /\ logs = ss.discovery_logs
            /\ ret = RetVal(ss.shorts_data, ss.shorts_keys, ss.video_to_channel,
                            ss.video_to_published, ss.discovery_logs,
                            ss.no_shorts_flag)
            /\ last_answer = [v \in DOMAIN answer \cap LastBatchIds(today_shorts)
                                |-> answer[v]]
    /\ idx = NumChannels
    /\ pages = 1
    /\ pageLeft = 0
    /\ hasNext = FALSE
    /\ vid_selected = 0
    /\ df = <<>>
    /\ vph_vals = <<>>
    /\ bg_pc = "wait"
    /\ poll_now_ts = 0
    /\ poll_vids = <<>>
    /\ poll_i = 0
    /\ stats_resp = EmptyDict
    /\ poll_vid = 0
    /\ data_lock = FALSE
    /\ wake_at = 0
    /\ failed = FALSE
    /\ last_item = NoItem
    /\ poll_base = EmptyDict

\* The variables no step of the polling thread touches.
PollFrame == UNCHANGED <<now, pc, discVars, ret, uiVars, accepted, answered>>

\* The wall clock advances while the polling thread, which reads it at lines
\* 218 and 246 and sleeps on it at line 248, is running.
TickPoll ==
    /\ bg_pc \in {"poll_head", "poll_fetch", "poll_items", "poll_append",
                  "round_end", "sleep"}
    /\ \E t \in PollInstants : t > now /\ now' = t
    /\ UNCHANGED <<pc, discVars, ret, ss, uiVars, bg_pc, pollVars, failed,
                   fetches, accepted, answered>>
    /\ UNCHANGED obsVars

\* Lines 196-203: the cached discovery returned no_shorts_flag = True.
BgBail ==
    /\ bg_pc = "wait"
    /\ ss.no_shorts_flag
    /\ bg_pc' = "returned"
    /\ UNCHANGED <<ss, pollVars, failed, fetches>>
    /\ PollFrame
    /\ UNCHANGED obsVars

\* Lines 196-207: "shorts_data" is in st.session_state.
BgEnterLoop ==
    /\ bg_pc = "wait"
    /\ ~ss.no_shorts_flag
    /\ ss.initialized
    /\ bg_pc' = "poll_head"
    /\ UNCHANGED <<ss, pollVars, failed, fetches>>
    /\ PollFrame
    /\ UNCHANGED obsVars

\* Lines 212-220: a round starts, unless an error is recorded.
PollRoundStart ==
    /\ bg_pc = "poll_head"
    /\ IF ss.error_message # NoneVal
       THEN /\ bg_pc' = "returned"
            /\ UNCHANGED <<poll_now_ts, poll_vids, poll_i>>
       ELSE /\ poll_now_ts' = now
            /\ poll_vids' = ss.shorts_keys
            /\ poll_i' = 0
            /\ bg_pc' = IF poll_vids' = <<>> THEN "round_end" ELSE "poll_fetch"
    /\ UNCHANGED <<ss, stats_resp, poll_vid, data_lock, wake_at, failed, fetches>>
    /\ PollFrame
    /\ UNCHANGED obsVars

\* Lines 221-227: the statistics call for the batch at poll_i answers.
PollFetchOk(answer) ==
    /\ bg_pc = "poll_fetch"
    /\ answer \in Answers(Batch(poll_vids, poll_i), DOMAIN ss.shorts_data)
    /\ stats_resp' = answer
    /\ fetches' = fetches + 1
    /\ bg_pc' = "poll_items"
    /\ UNCHANGED <<ss, poll_now_ts, poll_vids, poll_i, poll_vid, data_lock,
                   wake_at, failed>>
    /\ PollFrame
    /\ last_answer' = answer
    /\ poll_base' = ss.shorts_data
    /\ UNCHANGED last_item

\* Lines 228-230.
PollFetchFail ==
    /\ bg_pc = "poll_fetch"
    /\ fetches' = fetches + 1
    /\ ss' = [ss EXCEPT !.error_message = "API Error (polling)"]
    /\ failed' = TRUE
    /\ bg_pc' = "returned"
    /\ UNCHANGED pollVars
    /\ PollFrame
    /\ UNCHANGED obsVars

\* Lines 233-242: the next answer item is taken, its row is built and
\* data_lock is acquired.
PollAcquire(v) ==
    /\ bg_pc = "poll_items"
    /\ v \in DOMAIN stats_resp
    /\ poll_vid' = v
    /\ data_lock' = TRUE
    /\ bg_pc' = "poll_append"
    /\ UNCHANGED <<ss, poll_now_ts, poll_vids, poll_i, stats_resp, wake_at,
                   failed, fetches>>
    /\ PollFrame
    /\ UNCHANGED obsVars

\* Lines 242-243 with the with block leaving data_lock held.
LockAfterWith_Held == TRUE

\* Lines 242-243: leaving the with block releases data_lock, whether line 243
\* returned or raised.
LockAfterWith == FALSE

\* Line 243 and the end of the with block: the row is appended, or KeyError
\* ends the thread; either way data_lock is released.
PollAppend ==
    /\ bg_pc = "poll_append"
    /\ IF poll_vid \in DOMAIN ss.shorts_data
       THEN /\ ss' = [ss EXCEPT !.shorts_data =
                        AppendRow(@, poll_vid, Row(poll_now_ts, stats_resp[poll_vid]))]
            /\ bg_pc' = "poll_items"
       ELSE /\ bg_pc' = "dead"
            /\ UNCHANGED ss
    /\ data_lock' = LockAfterWith
    /\ stats_resp' = [v \in DOMAIN stats_resp \ {poll_vid} |-> stats_resp[v]]
    /\ UNCHANGED <<poll_now_ts, poll_vids, poll_i, poll_vid, wake_at, failed,
                   fetches>>
    /\ PollFrame
    /\ UNCHANGED obsVars

\* Line 221: the answer is exhausted; the next batch, or the end of the round.
PollBatchDone ==
    /\ bg_pc = "poll_items"
    /\ stats_resp = EmptyDict
    /\ poll_i' = poll_i + BatchSize
    /\ bg_pc' = IF poll_i' < Len(poll_vids) THEN "poll_fetch" ELSE "round_end"
    /\ UNCHANGED <<ss, poll_now_ts, poll_vids, stats_resp, poll_vid, data_lock,
                   wake_at, failed, fetches>>
    /\ PollFrame
    /\ UNCHANGED obsVars

\* Lines 246-248: the clock is read and the thread goes to sleep.
PollSleep ==
    /\ bg_pc = "round_end"
    /\ wake_at' = now + secs_until_next(now)
    /\ bg_pc' = "sleep"
    /\ UNCHANGED <<ss, poll_now_ts, poll_vids, poll_i, stats_resp, poll_vid,
                   data_lock, failed, fetches>>
    /\ PollFrame
    /\ UNCHANGED obsVars

\* Line 248: time.sleep returns once the time has passed.
PollWake ==
    /\ bg_pc = "sleep"
    /\ now >= wake_at
    /\ bg_pc' = "poll_head"
    /\ UNCHANGED <<ss, pollVars, failed, fetches>>
    /\ PollFrame
    /\ UNCHANGED obsVars

\* The rendering pass next to the polling thread.
NextPoll ==
    \/ TickPoll
    \/ UiStop
    \/ \E v \in Vids : UiSelect(v)
    \/ UiBuild
    \/ Rerun
    \/ BgBail
    \/ BgEnterLoop
    \/ PollRoundStart
    \/ \E a \in Answers(Batch(poll_vids, poll_i), DOMAIN ss.shorts_data) : PollFetchOk(a)
    \/ PollFetchFail
    \/ \E v \in Vids : PollAcquire(v)
    \/ PollAppend
    \/ PollBatchDone
    \/ PollSleep
    \/ PollWake

SpecPoll == InitPoll /\ [][NextPoll]_vars

\* The polling thread and the clock alone.  No step of the rendering pass
\* writes a variable the polling thread reads, so the thread does here what
\* it does under SpecPoll.
NextSampler ==
    \/ TickPoll
    \/ BgBail
    \/ BgEnterLoop
    \/ PollRoundStart
    \/ \E a \in Answers(Batch(poll_vids, poll_i), DOMAIN ss.shorts_data) : PollFetchOk(a)
    \/ PollFetchFail
    \/ \E v \in Vids : PollAcquire(v)
    \/ PollAppend
    \/ PollBatchDone
    \/ PollSleep
    \/ PollWake

SpecSampler == InitPoll /\ [][NextSampler]_vars

\* ---------------------------------------------------------------------
\* Lines 245-248 on every reading of the clock: the polling thread has
\* finished a round at some second of the hour 18:00-19:00 UTC and computes
\* how long to sleep.
\* ---------------------------------------------------------------------

\* The clock readings of line 246: every minute and second of one hour.
WaitInstants == {HourSlot(PollStart) * HourSecs + k : k \in 0..(HourSecs - 1)}

InitWait ==
    /\ now \in WaitInstants
    /\ pc = "stopped"
    /\ idx = NumChannels
    /\ pages = 1
    /\ pageLeft = 0
    /\ hasNext = FALSE
    /\ channel_shorts = <<>>
    /\ today_shorts = <<1>>
    /\ shorts_data = [v \in {1} |-> <<>>]
    /\ video_to_channel = [v \in {1} |-> 1]
    /\ video_to_published = [v \in {1} |-> get_midnight_ist_utc(PollStart) - DaySecs]
    /\ logs = LogsOf([c \in Channels |-> IF c = 1 THEN <<1>> ELSE <<>>], NumChannels)
    /\ now_ts = HourSlot(PollStart) * HourSecs
    /\ bi = BatchSize
    /\ ret = RetVal(shorts_data, <<1>>, video_to_channel, video_to_published,
                    logs, FALSE)
    /\ ss = [initialized |-> TRUE, shorts_data |-> shorts_data, shorts_keys |-> <<1>>,
             video_to_channel |-> video_to_channel,
             video_to_published |-> video_to_published,
             discovery_logs |-> logs, error_message |-> NoneVal,
             no_shorts_flag |-> FALSE]
    /\ vid_selected = 0
    /\ df = <<>>
    /\ vph_vals = <<>>
    /\ bg_pc = "round_end"
    /\ poll_now_ts = now
    /\ poll_vids = <<1>>
    /\ poll_i = BatchSize
    /\ stats_resp = EmptyDict
    /\ poll_vid = 0
    /\ data_lock = FALSE
    /\ wake_at = 0
    /\ failed = FALSE
    /\ fetches = 2
    /\ accepted = [c \in Channels |-> IF c = 1 THEN <<1>> ELSE <<>>]
    /\ answered = {}
    /\ last_item = NoItem
    /\ last_answer = EmptyDict
    /\ poll_base = shorts_data

SpecWait == InitWait /\ [][PollSleep]_vars

\* ---------------------------------------------------------------------
\* Properties
\* ---------------------------------------------------------------------

\* discover_and_initial_stats has returned to line 253.
Returned == pc \in {"returned", "ui_gate", "ui_rows", "ui_done", "stopped"}

\* The ids accepted over all channels.
AcceptedIds == UNION {Range(accepted[c]) : c \in Channels}

\* The last log line is that of line 172.
StatsFailed == logs # <<>> /\ logs[Len(logs)].kind = "error_stats"

\* The per-channel completion lines of a log, in log order.
IsSummary(e) == e.kind \in {"found", "none"}
Summaries(lg) == SelectSeq(lg, IsSummary)

\* What the completion lines must say, given what each channel accepted.
ExpectedSummaries ==
    [c \in Channels |-> IF accepted[c] # <<>>
                        THEN LogLine("found", c, Len(accepted[c]))
                        ELSE LogLine("none", c, 0)]

\* The store is exposed and discovery with its first round succeeded.
Ready == ss.initialized /\ ~ss.no_shorts_flag

\* A reader sees the engine ready: no terminal flag is set.
ObservedReady == Ready /\ ss.error_message = NoneVal

\* C1: once a collaborator call has failed, fatalError is set (first part of
\* the claim): whenever a call has raised HttpError and the outcome has been
\* stored, st.session_state.error_message holds a message.
C1_FailureSetsFatalError ==
    (failed /\ ss.initialized) => ss.error_message # NoneVal

\* C2: when the statistics fetch of a later batch of the immediate round
\* fails, every row appended from the earlier batches of that round is still
\* in the store afterwards (no rollback).
C2_EarlierBatchesKept ==
    (ss.initialized /\ StatsFailed) =>
        \A v \in DOMAIN shorts_data :
            shorts_data[v] # <<>> =>
                /\ v \in DOMAIN ss.shorts_data
                /\ ss.shorts_data[v] = shorts_data[v]

\* C3: noItemsToday is set only when discovery ran over all channels without
\* a failure and accepted nothing; a failure never shows as noItemsToday.
C3_NoItemsOnlyWhenNothingAccepted ==
    (ss.initialized /\ ss.no_shorts_flag) => (~failed /\ AcceptedIds = {})

C5_ReadyAfterFirstRound ==
    /\ [](ObservedReady =>
            /\ Returned
            /\ \A v \in answered :
                  v \in DOMAIN ss.shorts_data /\ ss.shorts_data[v] # <<>>)
    /\ [][Ready => Ready']_vars

\* The engine is ready, the immediate round answered for an item and a
\* reader has built its table.
C5_Witness ==
    /\ ObservedReady
    /\ answered # {}
    /\ pc = "ui_done"
    /\ vid_selected \in answered

\* C6: after a discovery that accepted an item and a first round that
\* succeeded, the polling thread never ends unless a fatal condition is
\* recorded.
C6_PollerAliveUnlessFatal ==
    ObservedReady => bg_pc \notin {"dead", "returned"}

\* C7: a statistics answer with an id that is no key of the store never
\* raises: the script run does not end in an exception.
C7_UnknownIdNeverRaises == pc # "crashed"

C9_SuccessfulPass ==
    (Returned /\ ~failed /\ AcceptedIds # {}) =>
        /\ DOMAIN ret.shorts_data = AcceptedIds
        /\ ~ret.no_shorts
        /\ Summaries(ret.logs) = ExpectedSummaries
        /\ ss.initialized =>
              /\ DOMAIN ss.shorts_data = AcceptedIds
              /\ ~ss.no_shorts_flag
              /\ Summaries(ss.discovery_logs) = ExpectedSummaries

\* Scenario A: the first channel accepted two items, the second none, and
\* the outcome is stored.
C9_Witness ==
    /\ Returned
    /\ ~failed
    /\ ss.initialized
    /\ Len(accepted[1]) = 2
    /\ accepted[2] = <<>>
    /\ Cardinality(DOMAIN ss.shorts_data) = 2

\* C10: in the table a reader built, the velocity at every index after the
\* first is the raw signed difference of consecutive view counts.
C10_VelocityIsRawDifference ==
    pc = "ui_done" =>
        /\ Len(vph_vals) = Len(df)
        /\ \A i \in 2..Len(df) :
              vph_vals[i] = [num |-> df[i].viewCount - df[i - 1].viewCount,
                             den |-> 1]

\* Scenario D: 1000 views, then 950: the velocity at the second row is -50.
C10_Witness ==
    /\ pc = "ui_done"
    /\ Len(df) >= 2
    /\ df[1].viewCount = 1000
    /\ df[2].viewCount = 950
    /\ vph_vals[2] = [num |-> -50, den |-> 1]

\* The tokens isodate.parse_duration raises on.
MalformedTokens == DurTokens \ DOMAIN ParsedSeconds

\* C11: a malformed duration token converts to 0 seconds, and an entry inside
\* the window whose lookup answers a malformed token is accepted as a Short:
\* it is the last id of channel_shorts, its metadata is recorded, and after
\* a pass without failure every accepted id is tracked.
C11_MalformedDurationAccepted ==
    /\ \A d \in MalformedTokens : iso8601_to_seconds(d) = 0
    /\ (pc = "items" /\ last_item.seen /\ last_item.duration \in MalformedTokens) =>
          /\ channel_shorts # <<>>
          /\ LET v == channel_shorts[Len(channel_shorts)]
             IN /\ v \in DOMAIN video_to_channel
                /\ video_to_channel[v] = idx
                /\ video_to_published[v] = last_item.published_at
                /\ v \in Range(accepted[idx])
    /\ (Returned /\ ~failed) => AcceptedIds \subseteq DOMAIN ret.shorts_data

\* The last entry the last channel listed had a token that does not parse;
\* the pass succeeded, the id is tracked and has a row.
C11_Witness ==
    /\ pc = "returned"
    /\ ~failed
    /\ last_item.seen
    /\ last_item.duration \in MalformedTokens
    /\ channel_shorts # <<>>
    /\ LET v == channel_shorts[Len(channel_shorts)]
       IN v \in DOMAIN ret.shorts_data /\ ret.shorts_data[v] # <<>>

\* The step takes a listing entry (one iteration of the loop of line 123).
TakesItem ==
    /\ pc = "items"
    /\ pageLeft > 0
    /\ pageLeft' = pageLeft - 1 \/ pc' = "returned"

\* C15: a listed entry is accepted iff its publish time lies in
\* [windowStart, windowStart + 24h) and its duration in seconds is <= 180,
\* and a duration lookup is issued exactly for the entries inside the window.
C15_AcceptedIffWindowAndShort ==
    [][TakesItem =>
        LET e == last_item'
            windowStart == get_midnight_ist_utc(now)
            inWindow == /\ e.published_at # BadTime
                        /\ windowStart <= e.published_at
                        /\ e.published_at < windowStart + DaySecs
            lookedUp == e.duration # "no_lookup"
            short == /\ e.duration \in DurTokens
                     /\ iso8601_to_seconds(e.duration) <= ShortLimit
        IN /\ e.seen
           /\ lookedUp <=> inWindow
           /\ (channel_shorts' # channel_shorts) <=> (inWindow /\ short)
           /\ (accepted' # accepted) <=> (inWindow /\ short)]_vars

\* An entry published exactly at windowStart with a duration of exactly 180
\* seconds has been accepted.
C15_Witness ==
    /\ pc = "items"
    /\ last_item.seen
    /\ last_item.published_at = get_midnight_ist_utc(now)
    /\ last_item.duration = "PT3M"
    /\ channel_shorts # <<>>
    /\ video_to_published[channel_shorts[Len(channel_shorts)]] = last_item.published_at

C13_WaitEndsAtNextHour ==
    bg_pc = "sleep" =>
        LET wait == wake_at - now
            minute == (now \div 60) % 60
            second == now % 60
        IN /\ wait = HourSecs - (minute * 60 + second)
           /\ wait >= 1
           /\ wait <= HourSecs
           /\ ((minute * 60) + second + wait) % HourSecs = 0
           /\ wake_at % HourSecs = 0
           /\ HourSlot(wake_at) = HourSlot(now) + 1

\* The round finished exactly at a top of the hour: the wait is a full hour.
C13_Witness ==
    /\ bg_pc = "sleep"
    /\ now % HourSecs = 0
    /\ wake_at - now = HourSecs

\* The sample built from the counters c of an answer and the capture time ts.
Sample(ts, c) ==
    [timestamp |-> ts, viewCount |-> c.viewCount, likeCount |-> c.likeCount,
     commentCount |-> c.commentCount]

C16_OneSamplePerRound ==
    (Returned /\ ~failed) =>
        \A v \in DOMAIN ret.shorts_data : Len(ret.shorts_data[v]) <= 1

\* C19: the tracked ids, the ids with a channel label and the ids with a
\* publish time are the same set, in what discovery returns (on success, on
\* every failure and on the no-items return) and in what readers see.
C19_SameKeysInAllMaps ==
    /\ Returned =>
          /\ DOMAIN ret.shorts_data = DOMAIN ret.video_to_channel
          /\ DOMAIN ret.shorts_data = DOMAIN ret.video_to_published
          /\ DOMAIN ret.shorts_data = Range(ret.shorts_keys)
    /\ DOMAIN ss.shorts_data = DOMAIN ss.video_to_channel
    /\ DOMAIN ss.shorts_data = DOMAIN ss.video_to_published
    /\ (pc = "ui_rows" /\ vid_selected \in DOMAIN ss.shorts_data) =>
          vid_selected \in DOMAIN ss.video_to_published

\* Readers see two tracked ids with their metadata after a successful pass.
C19_Witness ==
    /\ ss.initialized
    /\ ~failed
    /\ Cardinality(DOMAIN ss.shorts_data) = 2
    /\ pc = "ui_done"

\* The windows a pass can test against: one per clock reading.
Windows == {get_midnight_ist_utc(t) : t \in Instants}

\* C20: all items accepted in one discovery pass have publish times inside
\* one single 24-hour window [w, w + 24h), also when the clock crosses local
\* midnight while the pass runs.
C20_OneWindowPerPass ==
    (Returned /\ ~failed) =>
        \E w \in Windows :
            \A v \in DOMAIN ret.video_to_published :
                /\ w <= ret.video_to_published[v]
                /\ ret.video_to_published[v] < w + DaySecs

====
